---- MODULE Spec2Model ----
(***************************************************************************)
(* Model of the span-aware table freeze controller                         *)
(* (table_freeze_rows_columns_spans): the TableFreezeController state      *)
(* machine, its observers and frame scheduling, and the freeze appliers    *)
(* that write the positioning state of the cells.                          *)
(***************************************************************************)
EXTENDS Integers, Sequences, FiniteSets, TLC

(***************************************************************************)
(* Bounds of the model.                                                    *)
(***************************************************************************)
\* number of managed tables that exist (in or out of the document)
NumTables == 2
\* scroll positions 0..MaxScroll, in units of ScrollStep pixels
MaxScroll == 1
\* the notification counter of a trigger class saturates here
MaxNotes == 2

\* the tables whose markup has spans, and one table without any span
SpanTables == 1 .. NumTables
PlainTable == 0
\* the table of the documented example: a header row, three body rows, four
\* columns, no span
ExampleTable == -1
\* a table of regular markup whose first body row is one colspan=3 cell
BannerTable == -6
\* a table marked up as the plain table, one of whose cells cannot be measured
BrokenTable == -2
\* tables with irregular markup: a row that has fewer cells than the others,
\* a cell that declares colspan="0", and a colspan that runs into a position
\* held by a rowspan of the row before
RaggedTable == -5
ZeroSpanTable == -4
OverlapTable == -3
IrregularTables == { RaggedTable, ZeroSpanTable, OverlapTable }
Tables == IrregularTables \cup { BannerTable, BrokenTable, ExampleTable, PlainTable } \cup SpanTables

Min(a, b) == IF a < b THEN a ELSE b
Max(a, b) == IF a > b THEN a ELSE b

RECURSIVE SumTo(_, _)
\* s[1] + ... + s[n], a missing or undefined slot counting 0 (`x || 0`)
SumTo(s, n) ==
  IF n <= 0 THEN 0
  ELSE (IF n \in DOMAIN s THEN s[n] ELSE 0) + SumTo(s, n - 1)

(***************************************************************************)
(* The host document: the tables, their markup and their rendered boxes.   *)
(* A table's markup does not change during a run; whether it is in the     *)
(* document does.                                                          *)
(***************************************************************************)
\* an attribute value as getAttribute returns it: absent (null), or a numeral
NoAttr == [kind |-> "absent", val |-> 0]
Num(n) == [kind |-> "int", val |-> n]

Cell(rs, cs) == [rowspan |-> rs, colspan |-> cs]
Plain == Cell(NoAttr, NoAttr)

\* the plain table and the broken table: a thead row and two body rows of three
\* cells, no span;
\* the example table: a thead row and three body rows of four cells, no span;
\* the ragged table: as the plain table, the last body row having two cells;
\* the zero-span table: as the plain table, the first cell of the first body
\* row declaring colspan="0";
\* the overlap table: a thead row of two cells, a body row whose second cell
\* declares rowspan="2" and a body row of one cell declaring colspan="2";
\* odd tables: a thead row with a colspan=2 header, two body rows;
\* even tables: no thead, two body rows, the first cell spanning both rows
HeadRows(t) ==
  IF t = ExampleTable THEN << << Plain, Plain, Plain, Plain >> >>
  ELSE IF t = OverlapTable THEN << << Plain, Plain >> >>
  ELSE IF t \in IrregularTables \cup { BannerTable, BrokenTable, PlainTable }
  THEN << << Plain, Plain, Plain >> >>
  ELSE IF t % 2 = 1 THEN << << Cell(NoAttr, Num(2)), Plain >> >> ELSE << >>

BodyRows(t) ==
  IF t = ExampleTable
  THEN << << Plain, Plain, Plain, Plain >>, << Plain, Plain, Plain, Plain >>,
          << Plain, Plain, Plain, Plain >> >>
  ELSE IF t = RaggedTable
  THEN << << Plain, Plain, Plain >>, << Plain, Plain >> >>
  ELSE IF t = ZeroSpanTable
  THEN << << Cell(NoAttr, Num(0)), Plain, Plain >>, << Plain, Plain, Plain >> >>
  ELSE IF t = OverlapTable
  THEN << << Plain, Cell(Num(2), NoAttr) >>, << Cell(NoAttr, Num(2)) >> >>
  ELSE IF t = BannerTable
  THEN << << Cell(NoAttr, Num(3)) >>, << Plain, Plain, Plain >> >>
  ELSE IF t \in { BrokenTable, PlainTable } \/ t % 2 = 1
  THEN << << Plain, Plain, Plain >>, << Plain, Plain, Plain >> >>
  ELSE << << Cell(Num(2), NoAttr), Plain >>, << Plain >> >>

\* raw data-row-freeze / data-col-freeze attributes as authored
RowFreezeAttr(t) ==
  IF t <= PlainTable THEN Num(1)
  ELSE IF t % 2 = 1 THEN Num(2) ELSE Num(0)
ColFreezeAttr(t) ==
  IF t \in { BannerTable, BrokenTable, ExampleTable, PlainTable } THEN Num(2) ELSE Num(1)

\* cell.getBoundingClientRect() throws for this cell: the second header cell of
\* the broken table
RectThrows(t, id) == t = BrokenTable /\ id = <<0, 1>>

\* table.closest(".table-content, [data-type='table-content']") finds a container
HasContainer(t) == TRUE

\* page geometry: the container of table t starts at ContainerTop(t) in page
\* coordinates and is ContainerHeight tall; the table starts at its top
ContainerTop(t) ==
  IF t = BrokenTable THEN 110 ELSE IF t <= PlainTable THEN 10 ELSE 10 + 100 * (t - 1)
ContainerHeight == 90
ScrollStep == 30
\* offsetHeight of the element the offsetSelector option selects
HeaderHeight == 20

\* table.rows: the rows of thead, then the rows of tbody
TableRows(t) == HeadRows(t) \o BodyRows(t)
NumRows(t) == Len(TableRows(t))
NumHead(t) == Len(HeadRows(t))
\* table.tHead / table.tBodies[0] exist
HasThead(t) == Len(HeadRows(t)) > 0
HasTbody(t) == Len(BodyRows(t)) > 0
\* a cell is named by its row index in table.rows and its index in row.cells
\* (both 0-based, as in the source)
RowCells(t, r) == { <<r, k>> : k \in 0 .. Len(TableRows(t)[r + 1]) - 1 }
CellsOf(t) == UNION { RowCells(t, r) : r \in 0 .. NumRows(t) - 1 }
CellAt(t, id) == TableRows(t)[id[1] + 1][id[2] + 1]

(***************************************************************************)
(* utils/dom-helpers and utils/measurements                                *)
(***************************************************************************)
\* getFreezeCount: Number(raw), finite and > 0 ? Math.floor : 0
getFreezeCount(raw) ==
  IF raw.kind = "absent" THEN 0
  ELSE IF raw.val > 0 THEN raw.val ELSE 0

\* rendered width of one logical column and height of row r, in pixels; the
\* example table has its documented column widths and row heights
ColPx == 50
ExampleWidths == << 50, 80, 60, 60 >>
ExampleHeights == << 30, 40, 40, 40 >>
RowPx(t, r) == IF t = ExampleTable THEN ExampleHeights[r + 1] ELSE 30 + 10 * r

\* parseInt(cell.getAttribute(name) || '1', 10)
ParseSpan(raw) == IF raw.kind = "absent" THEN 1 ELSE raw.val

\* cell.getBoundingClientRect().width: a cell is as wide as the columns it covers
RectWidth(t, id) ==
  IF t = ExampleTable THEN ExampleWidths[id[2] + 1]
  ELSE ColPx * Max(1, ParseSpan(CellAt(t, id).colspan))

\* measureColumnWidths: the width of every child of the first row
\* (thead's first tr, else tbody's first tr), [] when there is no row and []
\* from the catch block when measuring a cell throws
measureColumnWidths(t) ==
  IF NumRows(t) = 0 \/ Len(TableRows(t)[1]) = 0 THEN << >>
  ELSE IF \E id \in RowCells(t, 0) : RectThrows(t, id) THEN << >>
  ELSE [ i \in 1 .. Len(TableRows(t)[1]) |-> Max(0, RectWidth(t, <<0, i - 1>>)) ]

\* leftOffsets[i] for i < n: the widths before slot i added up (0-based i)
LeftOffset(widths, i) == SumTo(widths, i)

(***************************************************************************)
(* utils/span-helpers                                                      *)
(***************************************************************************)
RECURSIVE NextFreeCol(_, _, _)
\* while (matrix[rowIndex][colIndex]) colIndex++
NextFreeCol(matrix, r, c) ==
  IF <<r, c>> \in DOMAIN matrix THEN NextFreeCol(matrix, r, c + 1) ELSE c

\* the cell's info is stored and its rectangle of positions written
PlaceAt(st, id, col, rowspan, colspan, rect) ==
  [ matrix |-> [ p \in DOMAIN st.matrix \cup rect |->
                   IF p \in rect THEN id ELSE st.matrix[p] ],
    cellInfo |-> [ c \in DOMAIN st.cellInfo \cup {id} |->
                     IF c = id
                     THEN [row |-> id[1], col |-> col, rowspan |-> rowspan, colspan |-> colspan]
                     ELSE st.cellInfo[c] ],
    colIndex |-> col + colspan ]

Rect(r, col, rowspan, colspan) ==
  { <<r + dr, col + dc>> : dr \in 0 .. rowspan - 1, dc \in 0 .. colspan - 1 }

PlaceSpans(st, id, col, rowspan, colspan) ==
  PlaceAt(st, id, col, rowspan, colspan, Rect(id[1], col, rowspan, colspan))

\* the body of the cells.forEach of buildCellMatrix for one cell
PlaceCell(t, st, id) ==
  PlaceSpans(st, id, NextFreeCol(st.matrix, id[1], st.colIndex),
             ParseSpan(CellAt(t, id).rowspan), ParseSpan(CellAt(t, id).colspan))

RECURSIVE PlaceRowCells(_, _, _, _)
PlaceRowCells(t, st, r, k) ==
  IF k >= Len(TableRows(t)[r + 1]) THEN st
  ELSE PlaceRowCells(t, PlaceCell(t, st, <<r, k>>), r, k + 1)

RECURSIVE PlaceRows(_, _, _)
PlaceRows(t, st, r) ==
  IF r >= NumRows(t) THEN st
  ELSE PlaceRows(t, PlaceRowCells(t, [st EXCEPT !.colIndex = 0], r, 0), r + 1)

SetMax(S, dflt) == IF S = {} THEN dflt ELSE CHOOSE x \in S : \A y \in S : y <= x

\* what buildCellMatrix returns: maxRow is matrix.length, maxCol the longest row
MatrixData(t, st) ==
  [ matrix |-> st.matrix,
    cellInfo |-> st.cellInfo,
    maxRow |-> Max(NumRows(t), SetMax({ p[1] + 1 : p \in DOMAIN st.matrix }, 0)),
    maxCol |-> SetMax({ p[2] + 1 : p \in DOMAIN st.matrix }, 0) ]

\* buildCellMatrix: matrix maps a written position <<row, col>> to its cell
buildCellMatrix(t) ==
  MatrixData(t, PlaceRows(t, [matrix |-> << >>, cellInfo |-> << >>, colIndex |-> 0], 0))

\* a table's markup is fixed, so each table's matrix is built once
matrixOf == [ t \in Tables |-> buildCellMatrix(t) ]

getCellsForColumnFreeze(matrixData, colFreeze) ==
  IF colFreeze <= 0 THEN {}
  ELSE { cell \in DOMAIN matrixData.cellInfo :
           LET info == matrixData.cellInfo[cell]
               cellEndCol == info.col + info.colspan - 1
           IN info.col < colFreeze \/ (info.col < colFreeze /\ cellEndCol >= colFreeze) }

\* the first min(rowFreeze, allRows.length) rows of thead rows followed by
\* tbody rows; every cell of them that has an info
getCellsForRowFreeze(t, matrixData, rowFreeze) ==
  IF rowFreeze > 0 /\ NumRows(t) > 0
  THEN { cell \in DOMAIN matrixData.cellInfo :
           LET rowIndex == cell[1]
               cellEndRow == rowIndex + matrixData.cellInfo[cell].rowspan - 1
           IN /\ rowIndex < Min(rowFreeze, NumRows(t))
              /\ (rowIndex < rowFreeze \/ cellEndRow < rowFreeze) }
  ELSE {}

getColumnBoundaryIndex(matrixData, colFreeze) ==
  IF colFreeze <= 0 THEN -1
  ELSE SetMax({ colFreeze - 1 } \cup
              { Min(matrixData.cellInfo[c].col + matrixData.cellInfo[c].colspan - 1,
                    colFreeze - 1) :
                  c \in { d \in DOMAIN matrixData.cellInfo :
                            matrixData.cellInfo[d].col < colFreeze } },
              colFreeze - 1)

\* rowIndex counts the rows of tbody alone
getRowBoundaryIndex(t, matrixData, rowFreeze) ==
  IF rowFreeze <= 0 THEN -1
  ELSE IF ~HasTbody(t) THEN -1
  ELSE SetMax({ rowFreeze - 1 } \cup
              { Min((c[1] - NumHead(t)) + matrixData.cellInfo[c].rowspan - 1,
                    rowFreeze - 1) :
                  c \in { d \in DOMAIN matrixData.cellInfo :
                            d[1] >= NumHead(t) /\ d[1] - NumHead(t) < rowFreeze } },
              rowFreeze - 1)

(***************************************************************************)
(* Positioning state of a cell: style.position, style.left, style.top and  *)
(* the freeze classes of its classList.                                    *)
(***************************************************************************)
\* an inline style property that is not set ("")
NoPx == -1

FreezeClasses ==
  { "freeze-col", "freeze-row", "freeze-both", "freeze-boundary-col", "freeze-boundary-row" }

CleanCell == [position |-> "", left |-> NoPx, top |-> NoPx, classes |-> {}]
CleanTable(t) == [ id \in CellsOf(t) |-> CleanCell ]

\* clearFreezeStyles: every cell carrying a freeze class loses the classes and
\* its position/left/top
clearFreezeStyles(t, s) ==
  [ id \in DOMAIN s |->
      IF s[id].classes \cap FreezeClasses # {} THEN CleanCell ELSE s[id] ]

\* isValidTable: table && table.classList && document.contains(table)
isValidTable(t, doc) == t \in doc

(***************************************************************************)
(* A table's markup and measurements are fixed, so what the measuring and  *)
(* span helpers return for a table and a freeze count is tabulated once.   *)
(***************************************************************************)
\* the freeze counts tabulated: those the tables' attributes give, and every
\* count up to the tables' numbers of rows and columns
FreezeCounts ==
  0 .. SetMax({ getFreezeCount(RowFreezeAttr(t)) : t \in Tables }
                \cup { getFreezeCount(ColFreezeAttr(t)) : t \in Tables }
                \cup { NumRows(t) : t \in Tables }
                \cup { matrixOf[t].maxCol : t \in Tables }, 0)

widthsOf == [ t \in Tables |-> measureColumnWidths(t) ]
columnCellsOf == [ t \in Tables |-> [ n \in FreezeCounts |-> getCellsForColumnFreeze(matrixOf[t], n) ] ]
columnBoundaryOf == [ t \in Tables |-> [ n \in FreezeCounts |-> getColumnBoundaryIndex(matrixOf[t], n) ] ]
rowCellsOf == [ t \in Tables |-> [ n \in FreezeCounts |-> getCellsForRowFreeze(t, matrixOf[t], n) ] ]
rowBoundaryOf == [ t \in Tables |-> [ n \in FreezeCounts |-> getRowBoundaryIndex(t, matrixOf[t], n) ] ]

(***************************************************************************)
(* utils/freeze-appliers (span-aware)                                      *)
(***************************************************************************)
\* the frozenCells.forEach of applyColumnFreeze
columnFreezeCells(s, matrixData, widths, actualColFreeze, frozenCells, boundaryCol) ==
  [ id \in DOMAIN s |->
      IF id \in frozenCells
      THEN LET info == matrixData.cellInfo[id]
               cellEndCol == info.col + info.colspan - 1
               left == IF info.col >= 0 /\ info.col < actualColFreeze
                       THEN LeftOffset(widths, info.col) ELSE 0
               mark == IF cellEndCol = boundaryCol \/ info.col = actualColFreeze - 1
                       THEN {"freeze-boundary-col"} ELSE {}
           IN [ s[id] EXCEPT !.position = "sticky",
                             !.left = left,
                             !.classes = @ \cup {"freeze-col"} \cup mark ]
      ELSE s[id] ]

columnFreezeWith(t, s, matrixData, widths, actualColFreeze) ==
  IF matrixData.maxCol = 0 \/ Len(widths) = 0 THEN s
  ELSE columnFreezeCells(s, matrixData, widths, actualColFreeze,
                         columnCellsOf[t][actualColFreeze],
                         columnBoundaryOf[t][actualColFreeze])

columnFreezeMeasured(t, s, colFreeze, matrixData, widths) ==
  columnFreezeWith(t, s, matrixData, widths, Min(colFreeze, Len(widths)))

applyColumnFreeze(t, s, colFreeze) ==
  IF colFreeze <= 0 THEN s
  ELSE columnFreezeMeasured(t, s, colFreeze, matrixOf[t], widthsOf[t])

\* the loop over the first min(rowFreeze, allRows.length) rows of applyRowFreeze
rowFreezeCells(s, rowFreeze, colFreeze, matrixData, widths, n, heights, frozenCells, boundaryRow) ==
  [ id \in DOMAIN s |->
      IF id[1] < n /\ id \in frozenCells
      THEN LET i == id[1]
               info == matrixData.cellInfo[id]
               cellEndRow == i + info.rowspan - 1
               inFrozenCol == /\ colFreeze > 0 /\ info.col < colFreeze
                              /\ info.col >= 0 /\ info.col < Min(colFreeze, Len(widths))
               mark == IF cellEndRow = boundaryRow \/ i = rowFreeze - 1
                       THEN {"freeze-boundary-row"} ELSE {}
           IN [ s[id] EXCEPT !.position = "sticky",
                             !.left = IF inFrozenCol THEN LeftOffset(widths, info.col) ELSE @,
                             !.top = SumTo(heights, i),
                             !.classes = @ \cup {"freeze-row"} \cup mark ]
      ELSE s[id] ]

\* frozenRowHeights: Math.max(0, rect.height) of each row that will be frozen
frozenRowHeights(t, n) == [ i \in 1 .. n |-> Max(0, RowPx(t, i - 1)) ]

rowFreezeWith(t, s, rowFreeze, colFreeze, matrixData, n) ==
  rowFreezeCells(s, rowFreeze, colFreeze, matrixData, widthsOf[t], n,
                 frozenRowHeights(t, n),
                 rowCellsOf[t][rowFreeze],
                 rowBoundaryOf[t][rowFreeze])

applyRowFreeze(t, s, rowFreeze, colFreeze) ==
  IF ~HasTbody(t) \/ rowFreeze <= 0 THEN s
  ELSE rowFreezeWith(t, s, rowFreeze, colFreeze, matrixOf[t], Min(rowFreeze, NumRows(t)))

\* every cell with both freeze-col and freeze-row keeps freeze-both alone of the three
applyCornerPriority(t, s, colFreeze) ==
  IF colFreeze <= 0 THEN s
  ELSE [ id \in DOMAIN s |->
           [ s[id] EXCEPT !.classes = IF {"freeze-col", "freeze-row"} \subseteq @
                                      THEN (@ \ {"freeze-col", "freeze-row"}) \cup {"freeze-both"}
                                      ELSE @ ] ]

freezeStylesWith(t, s, rowFreeze, colFreeze) ==
  applyCornerPriority(t,
    applyColumnFreeze(t,
      applyRowFreeze(t, clearFreezeStyles(t, s), rowFreeze, colFreeze),
      colFreeze),
    colFreeze)

\* the styling part of applyFreezeToTable, for a table that is valid
applyFreezeStyles(t, s, rowRaw, colRaw) ==
  freezeStylesWith(t, s, getFreezeCount(rowRaw), getFreezeCount(colRaw))

\* getStickyOffset: the offsetHeight of the selected element; 0 when the option
\* is falsy, selects nothing, or is no valid selector (querySelector throws)
getStickyOffset(sel) == IF sel = "selector" THEN Max(0, HeaderHeight) ELSE 0

\* container.getBoundingClientRect() / table.getBoundingClientRect() at scroll y
ContainerRectTop(t, y) == ContainerTop(t) - y * ScrollStep
ContainerRectBottom(t, y) == ContainerRectTop(t, y) + ContainerHeight
TableRectTop(t, y) == ContainerRectTop(t, y)

\* the rows handlePageScroll repositions: thead rows, then tbody.rows.slice(0, rowFreeze)
ScrollRows(t, rowFreeze) == NumHead(t) + Min(rowFreeze, Len(BodyRows(t)))

\* the loop of handlePageScroll that moves the frozen rows to stickyTop
stickyRows(t, s, rowFreeze, stickyTop, heights) ==
  [ id \in DOMAIN s |->
      IF /\ id[1] < ScrollRows(t, rowFreeze)
         /\ s[id].position = "sticky"
         /\ s[id].top # NoPx
      THEN [ s[id] EXCEPT !.top = stickyTop + SumTo(heights, id[1]) ]
      ELSE s[id] ]

\* containerRect.top <= stickyOffset && containerRect.bottom > stickyOffset
isInStickyZone(t, stickyOffset, y) ==
  /\ ContainerRectTop(t, y) <= stickyOffset
  /\ ContainerRectBottom(t, y) > stickyOffset

\* a positional update that leaves a table outside the band as it is
scrollInBandOnly(t, s, rowFreeze, colFreeze, stickyOffset, y) ==
  IF isInStickyZone(t, stickyOffset, y) /\ rowFreeze > 0
  THEN stickyRows(t, s, rowFreeze, Max(0, stickyOffset - TableRectTop(t, y)),
                  [ i \in 1 .. NumRows(t) |-> RowPx(t, i - 1) ])
  ELSE s

scrollTableWith(t, s, rowFreeze, colFreeze, stickyOffset, y) ==
  IF isInStickyZone(t, stickyOffset, y) /\ rowFreeze > 0
  THEN stickyRows(t, s, rowFreeze, Max(0, stickyOffset - TableRectTop(t, y)),
                  [ i \in 1 .. NumRows(t) |-> RowPx(t, i - 1) ])
  ELSE applyRowFreeze(t, s, rowFreeze, colFreeze)

\* the body of the tables.forEach of handlePageScroll for a table in the document
scrollTable(t, s, rowRaw, colRaw, stickyOffset, y) ==
  IF ~HasContainer(t) THEN s
  ELSE IF ~HasThead(t) /\ ~HasTbody(t) THEN s
  ELSE scrollTableWith(t, s, getFreezeCount(rowRaw), getFreezeCount(colRaw), stickyOffset, y)

(***************************************************************************)
(* State.                                                                  *)
(***************************************************************************)
VARIABLES
  \* TableFreezeController fields
  offsetSelector,          \* options.offsetSelector, by the kind of value given
  isDestroyed,             \* _isDestroyed
  isInitialized,           \* _isInitialized
  refreshRaf,              \* _refreshRaf: 0 or the id of the pending frame
  scrollRaf,               \* _scrollRaf
  mutationRaf,             \* _mutationRaf
  resizeObserver,          \* _resizeObserver is not null
  intersectionObserver,    \* _intersectionObserver is not null
  mutationObserver,        \* _mutationObserver is not null
  observedTables,          \* keys of _observedTables
  tablesInStickyZone,      \* _tablesInStickyZone
  scrollListenerAttached,  \* _scrollListenerAttached
  \* the host
  hasRO, hasIO, hasMO,     \* window.ResizeObserver / IntersectionObserver / MutationObserver exist
  windowListeners,         \* the events of window this controller's handlers listen to
  roTargets,               \* the elements the ResizeObserver observes
  ioTargets,               \* the elements the IntersectionObserver observes
  rafQueue,                \* the requested animation frames that have not run yet
  page,                    \* the managed tables the page owns, in the document or not
  inDoc,                   \* the managed tables that are in the document
  freezeAttr,              \* each table's data-row-freeze / data-col-freeze attributes
  styles,                  \* each table's cells' positioning state
  scrollY,                 \* the page's scroll position, in ScrollStep units
  \* history
  result,                  \* outcome of the latest public call
  notes,                   \* per trigger class: notifications since its frame last ran
  lastIsect                \* per observed table: isIntersecting of its latest entry

ctrlVars ==
  << isDestroyed, isInitialized, refreshRaf, scrollRaf, mutationRaf, resizeObserver,
     intersectionObserver, mutationObserver, observedTables, tablesInStickyZone,
     scrollListenerAttached >>
hostVars == << windowListeners, roTargets, ioTargets, rafQueue >>
domVars == << inDoc, freezeAttr, styles, scrollY >>
capVars == << offsetSelector, hasRO, hasIO, hasMO, page >>
histVars == << result, notes, lastIsect >>
vars == << ctrlVars, hostVars, domVars, capVars, histVars >>

\* the kinds of value the offsetSelector option is given: the default "",
\* a selector string, a falsy value that is no string (0, null, false,
\* undefined), a truthy value that is no string (a number, an object)
OptionKinds == { "", "selector", "falsy", "truthy" }
TriggerClasses == { "refresh", "mutation", "scroll" }
FrameKinds == { "ro", "resize", "mutation", "scroll" }
ClassOf(kind) == IF kind \in { "ro", "resize" } THEN "refresh" ELSE kind
NoEntry == "none"

\* the hosts explored: every host has a MutationObserver; the hosts that lack
\* the ResizeObserver or the IntersectionObserver are explored with a selector
\* string for the option
HostsExplored ==
  /\ hasMO
  /\ offsetSelector # "selector" => hasRO /\ hasIO

\* the pages explored: one managed table, of either markup with spans
Pages == { {t} : t \in SpanTables }

InitOn(pages) ==
  /\ offsetSelector \in OptionKinds
  /\ isDestroyed = FALSE
  /\ isInitialized = FALSE
  /\ refreshRaf = 0 /\ scrollRaf = 0 /\ mutationRaf = 0
  /\ resizeObserver = FALSE /\ intersectionObserver = FALSE /\ mutationObserver = FALSE
  /\ observedTables = {} /\ tablesInStickyZone = {}
  /\ scrollListenerAttached = FALSE
  /\ hasRO \in BOOLEAN /\ hasIO \in BOOLEAN /\ hasMO \in BOOLEAN
  /\ HostsExplored
  /\ windowListeners = {} /\ roTargets = {} /\ ioTargets = {}
  /\ rafQueue = {}
  /\ page \in pages
  /\ inDoc = page
  /\ freezeAttr = [ t \in page |-> [row |-> RowFreezeAttr(t), col |-> ColFreezeAttr(t)] ]
  /\ styles = [ t \in page |-> CleanTable(t) ]
  /\ scrollY = 0
  /\ result = "-"
  /\ notes = [ k \in TriggerClasses |-> 0 ]
  /\ lastIsect = [ t \in page |-> NoEntry ]

Init == InitOn(Pages)
\* the page whose managed table has no span
InitPlain == InitOn({ { PlainTable } })
\* the page of the documented example table
InitExample == InitOn({ { ExampleTable } })
\* the pages whose managed table has irregular markup
InitIrregular == InitOn({ { t } : t \in IrregularTables })
\* the page of the table with the colspan=3 body cell
InitBanner == InitOn({ { BannerTable } })
\* a page with two managed tables, the plain table and the broken table
\* in a browser that has the three observers, with a valid offsetSelector
InitFaulty ==
  /\ InitOn({ { BrokenTable, PlainTable } })
  /\ hasRO /\ hasIO
  /\ offsetSelector = "selector"

(***************************************************************************)
(* requestAnimationFrame / cancelAnimationFrame                            *)
(***************************************************************************)
FrameIds(q) == { f.id : f \in q }
ClassIndex(class) == CASE class = "refresh" -> 1 [] class = "mutation" -> 2 [] class = "scroll" -> 3
\* the handles requestAnimationFrame can give a callback of a class
Handle(class, n) == 3 * n + ClassIndex(class)
\* the handle of a new request: non-zero and not the handle of a pending one
NewFrameId(q, kind) ==
  LET free == { n \in 0 .. Cardinality(q) : Handle(ClassOf(kind), n) \notin FrameIds(q) }
  IN Handle(ClassOf(kind), CHOOSE n \in free : \A m \in free : n <= m)
requestAnimationFrame(q, kind) == q \cup { [id |-> NewFrameId(q, kind), kind |-> kind] }
\* a request made right after a cancellation: the handle is new to the queue as
\* it was before the cancellation, a cancelled handle is not given out again
requestedAfter(q, before, kind) == q \cup { [id |-> NewFrameId(before, kind), kind |-> kind] }
cancelAnimationFrame(q, id) == { f \in q : f.id # id }
Pending(q, class) == { f \in q : ClassOf(f.kind) = class }

Note(class) == [ notes EXCEPT ![class] = Min(@ + 1, MaxNotes) ]

(***************************************************************************)
(* applyAll, handlePageScroll, syncObservers as functions of the state     *)
(***************************************************************************)
\* a walk over the tables that an error on one table aborts as a whole
applyAllOrNone(st, at, doc) ==
  [ t \in page |->
      IF isValidTable(t, doc) /\ ~(\E u \in doc : \E id \in CellsOf(u) : RectThrows(u, id))
      THEN applyFreezeStyles(t, st[t], at[t].row, at[t].col)
      ELSE st[t] ]

\* applyFreezeToTable for every table of the document
applyAllStyles(st, at, doc) ==
  [ t \in page |->
      IF isValidTable(t, doc)
      THEN applyFreezeStyles(t, st[t], at[t].row, at[t].col)
      ELSE st[t] ]

\* a write-back that stores each count under the other attribute
swappedAttrs(at, doc) ==
  [ t \in page |->
      IF isValidTable(t, doc)
      THEN [row |-> Num(getFreezeCount(at[t].col)), col |-> Num(getFreezeCount(at[t].row))]
      ELSE at[t] ]

\* table.dataset.colFreeze = colFreeze; table.dataset.rowFreeze = rowFreeze
applyAllAttrs(at, doc) ==
  [ t \in page |->
      IF isValidTable(t, doc)
      THEN [row |-> Num(getFreezeCount(at[t].row)), col |-> Num(getFreezeCount(at[t].col))]
      ELSE at[t] ]

\* the tables handlePageScroll walks
scrollTargets(zone, doc) == IF zone # {} THEN zone ELSE doc

handlePageScrollStyles(st, at, zone, doc, y) ==
  [ t \in page |->
      IF t \in scrollTargets(zone, doc) /\ t \in doc
      THEN scrollTable(t, st[t], at[t].row, at[t].col, getStickyOffset(offsetSelector), y)
      ELSE st[t] ]

\* tables of the walk that left the document are deleted from the set
handlePageScrollZone(zone, doc) == zone \cap doc

\* a synchronisation that registers new tables and forgets none
keepObserved(observed, doc) == observed \cup doc

\* syncObservers
syncObserved(observed, doc) == doc
syncTargets(targets, present, observed, doc) ==
  IF present THEN (targets \cup (doc \ observed)) \ (observed \ doc) ELSE targets
syncZone(zone, observed, doc) == zone \ (observed \ doc)

(***************************************************************************)
(* TableFreezeController: init                                             *)
(***************************************************************************)
\* a return false of init: nothing but the outcome changes
initReject ==
  /\ result' = "init:false"
  /\ UNCHANGED << ctrlVars, hostVars, domVars, capVars, notes, lastIsect >>

\* the option fails `offsetSelector && typeof offsetSelector !== "string"`
invalidOffsetSelector == offsetSelector = "truthy"

\* _initIntersectionObserver without an IntersectionObserver: _attachScrollListener()
\* _initIntersectionObserver that attaches no listener
noFallback(io, attached) == attached

fallbackAttached(io, attached) == IF io THEN attached ELSE TRUE
fallbackListeners(io, listeners) == IF io THEN listeners ELSE listeners \cup {"scroll"}

\* init from the refresh() on: refresh, the resize listener, the three observers
initAccept ==
  /\ styles' = applyAllStyles(styles, freezeAttr, inDoc)
  /\ freezeAttr' = applyAllAttrs(freezeAttr, inDoc)
  /\ resizeObserver' = hasRO
  /\ roTargets' = IF hasRO THEN inDoc ELSE roTargets
  /\ observedTables' = IF hasRO THEN observedTables \cup inDoc ELSE observedTables
  /\ intersectionObserver' = hasIO
  /\ ioTargets' = IF hasIO THEN inDoc ELSE ioTargets
  /\ scrollListenerAttached' = fallbackAttached(hasIO, scrollListenerAttached)
  /\ windowListeners' = fallbackListeners(hasIO, windowListeners \cup {"resize"})
  /\ mutationObserver' = hasMO
  /\ isInitialized' = TRUE
  /\ result' = "init:true"
  /\ UNCHANGED << isDestroyed, refreshRaf, scrollRaf, mutationRaf, tablesInStickyZone,
                  rafQueue, inDoc, scrollY, capVars, notes, lastIsect >>

\* init without its _isDestroyed guard
initOfDestroyed ==
  IF isInitialized THEN initReject
  ELSE IF invalidOffsetSelector THEN initReject
  ELSE initAccept

\* init without its _isInitialized guard
initOfInitialized ==
  IF isDestroyed THEN initReject
  ELSE IF invalidOffsetSelector THEN initReject
  ELSE initAccept

init ==
  IF isDestroyed THEN initReject
  ELSE IF isInitialized THEN initReject
  ELSE IF invalidOffsetSelector THEN initReject
  ELSE initAccept

(***************************************************************************)
(* Notification handlers                                                   *)
(***************************************************************************)
\* the callback given to createResizeObserver
onResizeObserved ==
  /\ IF refreshRaf # 0
     THEN UNCHANGED << refreshRaf, rafQueue >>
     ELSE /\ refreshRaf' = NewFrameId(rafQueue, "ro")
          /\ rafQueue' = requestAnimationFrame(rafQueue, "ro")
  /\ notes' = Note("refresh")

\* a layout-change notification: the box of an observed table changed
ResizeObserverNotify ==
  /\ resizeObserver /\ roTargets # {}
  /\ onResizeObserved
  /\ result' = "-"
  /\ UNCHANGED << isDestroyed, isInitialized, scrollRaf, mutationRaf, resizeObserver,
                  intersectionObserver, mutationObserver, observedTables,
                  tablesInStickyZone, scrollListenerAttached, windowListeners, roTargets,
                  ioTargets, domVars, capVars, lastIsect >>

\* _onResize without its cancelAnimationFrame
onResizeKeepingFrame ==
  /\ refreshRaf' = NewFrameId(rafQueue, "resize")
  /\ rafQueue' = requestAnimationFrame(rafQueue, "resize")
  /\ notes' = Note("refresh")

\* _onResize
onResize ==
  /\ refreshRaf' = NewFrameId(rafQueue, "resize")
  /\ rafQueue' = requestedAfter(cancelAnimationFrame(rafQueue, refreshRaf), rafQueue, "resize")
  /\ notes' = Note("refresh")

\* the window is resized
WindowResize ==
  /\ "resize" \in windowListeners
  /\ onResize
  /\ result' = "-"
  /\ UNCHANGED << isDestroyed, isInitialized, scrollRaf, mutationRaf, resizeObserver,
                  intersectionObserver, mutationObserver, observedTables,
                  tablesInStickyZone, scrollListenerAttached, windowListeners, roTargets,
                  ioTargets, domVars, capVars, lastIsect >>

\* _onScroll
onScroll ==
  /\ scrollRaf' = NewFrameId(rafQueue, "scroll")
  /\ rafQueue' = requestedAfter(cancelAnimationFrame(rafQueue, scrollRaf), rafQueue, "scroll")
  /\ notes' = Note("scroll")

\* the page scrolls to position y; the scroll event reaches _onScroll when it listens
PageScroll(y) ==
  /\ y # scrollY
  /\ scrollY' = y
  /\ IF "scroll" \in windowListeners
     THEN onScroll
     ELSE UNCHANGED << scrollRaf, rafQueue, notes >>
  /\ result' = "-"
  /\ UNCHANGED << isDestroyed, isInitialized, refreshRaf, mutationRaf, resizeObserver,
                  intersectionObserver, mutationObserver, observedTables,
                  tablesInStickyZone, scrollListenerAttached, windowListeners, roTargets,
                  ioTargets, inDoc, freezeAttr, styles, capVars, lastIsect >>

\* the callback given to createMutationObserver
onMutation ==
  /\ IF mutationRaf # 0
     THEN UNCHANGED << mutationRaf, rafQueue >>
     ELSE /\ mutationRaf' = NewFrameId(rafQueue, "mutation")
          /\ rafQueue' = requestAnimationFrame(rafQueue, "mutation")
  /\ notes' = Note("mutation")

\* an entries.forEach that checks document.contains(table) alone
zoneOfContainedEntries(zone, entries) ==
  LET honoured == { t \in DOMAIN entries : t \in inDoc }
  IN (zone \cup { t \in honoured : entries[t] }) \ { t \in honoured : ~entries[t] }

\* _tablesInStickyZone after the entries.forEach of _onIntersection
zoneAfterEntries(zone, entries) ==
  LET honoured == { t \in DOMAIN entries : t \in observedTables /\ t \in inDoc }
  IN (zone \cup { t \in honoured : entries[t] }) \ { t \in honoured : ~entries[t] }

\* _onIntersection
onIntersection(entries) ==
  LET zone == zoneAfterEntries(tablesInStickyZone, entries)
  IN IF zone # {}
     THEN \* _attachScrollListener(); handlePageScroll()
          /\ scrollListenerAttached' = TRUE
          /\ windowListeners' = IF scrollListenerAttached THEN windowListeners
                                ELSE windowListeners \cup {"scroll"}
          /\ styles' = handlePageScrollStyles(styles, freezeAttr, zone, inDoc, scrollY)
          /\ tablesInStickyZone' = handlePageScrollZone(zone, inDoc)
          /\ UNCHANGED << scrollRaf, rafQueue, notes >>
     ELSE \* _detachScrollListener()
          /\ tablesInStickyZone' = zone
          /\ scrollListenerAttached' = FALSE
          /\ windowListeners' = IF scrollListenerAttached THEN windowListeners \ {"scroll"}
                                ELSE windowListeners
          /\ scrollRaf' = IF scrollListenerAttached THEN 0 ELSE scrollRaf
          /\ rafQueue' = IF scrollListenerAttached /\ scrollRaf # 0
                         THEN cancelAnimationFrame(rafQueue, scrollRaf) ELSE rafQueue
          /\ notes' = IF scrollListenerAttached /\ scrollRaf # 0
                      THEN [ notes EXCEPT !["scroll"] = 0 ] ELSE notes
          /\ UNCHANGED styles

\* the IntersectionObserver delivers a batch of entries, one per table of E;
\* a table outside the document does not intersect
IntersectionNotify(E, entries) ==
  /\ intersectionObserver
  /\ \A t \in E : entries[t] => t \in inDoc
  /\ onIntersection(entries)
  /\ lastIsect' = [ t \in page |->
                      IF t \in E THEN (IF entries[t] THEN "true" ELSE "false")
                      ELSE lastIsect[t] ]
  /\ result' = "-"
  /\ UNCHANGED << isDestroyed, isInitialized, refreshRaf, mutationRaf, resizeObserver,
                  intersectionObserver, mutationObserver, observedTables, roTargets,
                  ioTargets, inDoc, freezeAttr, scrollY, capVars >>

(***************************************************************************)
(* Frame callbacks                                                         *)
(***************************************************************************)
Ran(class) == notes' = [ notes EXCEPT ![class] = 0 ]

\* the frame requested by the ResizeObserver callback: applyAll()
roFrame ==
  /\ refreshRaf' = 0
  /\ styles' = applyAllStyles(styles, freezeAttr, inDoc)
  /\ freezeAttr' = applyAllAttrs(freezeAttr, inDoc)
  /\ Ran("refresh")
  /\ UNCHANGED << scrollRaf, mutationRaf, observedTables, tablesInStickyZone,
                  roTargets, ioTargets, lastIsect >>

\* the frame requested by _onResize: applyAll(); handlePageScroll()
resizeFrame ==
  /\ refreshRaf' = 0
  /\ styles' = handlePageScrollStyles(applyAllStyles(styles, freezeAttr, inDoc),
                                      applyAllAttrs(freezeAttr, inDoc),
                                      tablesInStickyZone, inDoc, scrollY)
  /\ freezeAttr' = applyAllAttrs(freezeAttr, inDoc)
  /\ tablesInStickyZone' = handlePageScrollZone(tablesInStickyZone, inDoc)
  /\ Ran("refresh")
  /\ UNCHANGED << scrollRaf, mutationRaf, observedTables, roTargets, ioTargets, lastIsect >>

\* the frame requested by the MutationObserver callback: applyAll(); _syncObservers()
mutationFrame ==
  /\ mutationRaf' = 0
  /\ styles' = applyAllStyles(styles, freezeAttr, inDoc)
  /\ freezeAttr' = applyAllAttrs(freezeAttr, inDoc)
  /\ observedTables' = syncObserved(observedTables, inDoc)
  /\ roTargets' = syncTargets(roTargets, resizeObserver, observedTables, inDoc)
  /\ ioTargets' = syncTargets(ioTargets, intersectionObserver, observedTables, inDoc)
  /\ tablesInStickyZone' = syncZone(tablesInStickyZone, observedTables, inDoc)
  /\ lastIsect' = [ t \in page |->
                      IF t \in syncTargets(ioTargets, intersectionObserver, observedTables, inDoc)
                      THEN lastIsect[t] ELSE NoEntry ]
  /\ Ran("mutation")
  /\ UNCHANGED << refreshRaf, scrollRaf >>

\* the frame requested by _onScroll: handlePageScroll()
scrollFrame ==
  /\ scrollRaf' = 0
  /\ styles' = handlePageScrollStyles(styles, freezeAttr, tablesInStickyZone, inDoc, scrollY)
  /\ tablesInStickyZone' = handlePageScrollZone(tablesInStickyZone, inDoc)
  /\ Ran("scroll")
  /\ UNCHANGED << refreshRaf, mutationRaf, observedTables, roTargets, ioTargets,
                  freezeAttr, lastIsect >>

\* a requested frame runs its callback
FireFrame(f) ==
  /\ f \in rafQueue
  /\ rafQueue' = rafQueue \ {f}
  /\ CASE f.kind = "ro" -> roFrame
       [] f.kind = "resize" -> resizeFrame
       [] f.kind = "mutation" -> mutationFrame
       [] f.kind = "scroll" -> scrollFrame
  /\ result' = "-"
  /\ UNCHANGED << isDestroyed, isInitialized, resizeObserver, intersectionObserver,
                  mutationObserver, scrollListenerAttached, windowListeners,
                  inDoc, scrollY, capVars >>

(***************************************************************************)
(* Public calls                                                            *)
(***************************************************************************)
\* refresh(): applyAll()
refresh ==
  /\ result' = "-"
  /\ UNCHANGED << ctrlVars, hostVars, inDoc, scrollY, capVars, notes, lastIsect >>
  /\ freezeAttr' = applyAllAttrs(freezeAttr, inDoc)
  /\ styles' = applyAllStyles(styles, freezeAttr, inDoc)

\* handlePageScroll() called directly
handlePageScroll ==
  /\ styles' = handlePageScrollStyles(styles, freezeAttr, tablesInStickyZone, inDoc, scrollY)
  /\ tablesInStickyZone' = handlePageScrollZone(tablesInStickyZone, inDoc)
  /\ result' = "-"
  /\ UNCHANGED << isDestroyed, isInitialized, refreshRaf, scrollRaf, mutationRaf,
                  resizeObserver, intersectionObserver, mutationObserver, observedTables,
                  scrollListenerAttached, hostVars, inDoc, freezeAttr, scrollY, capVars,
                  notes, lastIsect >>

\* destroy() on a controller that is not destroyed
destroyNow ==
  /\ isDestroyed' = TRUE
  /\ refreshRaf' = 0 /\ scrollRaf' = 0 /\ mutationRaf' = 0
  /\ rafQueue' = cancelAnimationFrame(
                   cancelAnimationFrame(
                     cancelAnimationFrame(rafQueue, refreshRaf), scrollRaf), mutationRaf)
  /\ windowListeners' = windowListeners \ { "resize", "scroll" }
  /\ scrollListenerAttached' = FALSE
  /\ resizeObserver' = FALSE /\ roTargets' = {}
  /\ intersectionObserver' = FALSE /\ ioTargets' = {}
  /\ mutationObserver' = FALSE
  /\ observedTables' = {}
  /\ tablesInStickyZone' = {}
  /\ styles' = [ t \in page |->
                   IF t \in inDoc THEN clearFreezeStyles(t, styles[t]) ELSE styles[t] ]
  /\ isInitialized' = FALSE
  /\ notes' = [ k \in TriggerClasses |-> 0 ]
  /\ lastIsect' = [ t \in page |-> NoEntry ]
  /\ UNCHANGED << inDoc, freezeAttr, scrollY, capVars >>

\* destroy without its _isDestroyed guard
destroyUnguarded ==
  /\ result' = "destroy"
  /\ destroyNow

\* destroy(): the outcome tells a teardown from the early return
destroy ==
  IF isDestroyed
  THEN /\ result' = "destroy:again"
       /\ UNCHANGED << ctrlVars, hostVars, domVars, capVars, notes, lastIsect >>
  ELSE /\ result' = "destroy"
       /\ destroyNow

(***************************************************************************)
(* The page changes the document                                           *)
(***************************************************************************)
\* The MutationObserver callback runs as a microtask of the script that
\* changed the document, before any event or frame; shouldRefresh tells
\* whether its records make it call the controller's callback.
mutationDelivered(shouldRefresh) ==
  IF mutationObserver /\ shouldRefresh
  THEN onMutation
  ELSE UNCHANGED << mutationRaf, rafQueue, notes >>

\* a table is inserted, itself or inside an inserted subtree
AddTable(t) ==
  /\ t \in page /\ t \notin inDoc
  /\ inDoc' = inDoc \cup {t}
  /\ mutationDelivered(TRUE)
  /\ result' = "-"
  /\ UNCHANGED << isDestroyed, isInitialized, refreshRaf, scrollRaf, resizeObserver,
                  intersectionObserver, mutationObserver, observedTables,
                  tablesInStickyZone, scrollListenerAttached, windowListeners, roTargets,
                  ioTargets, freezeAttr, styles, scrollY, capVars, lastIsect >>

\* a table is removed: the removed node is the table itself (self = TRUE) or
\* an ancestor of it, which matches no table selector
RemoveTable(t, self) ==
  /\ t \in inDoc
  /\ inDoc' = inDoc \ {t}
  /\ mutationDelivered(self)
  /\ result' = "-"
  /\ UNCHANGED << isDestroyed, isInitialized, refreshRaf, scrollRaf, resizeObserver,
                  intersectionObserver, mutationObserver, observedTables,
                  tablesInStickyZone, scrollListenerAttached, windowListeners, roTargets,
                  ioTargets, freezeAttr, styles, scrollY, capVars, lastIsect >>

CallInit == init
CallRefresh == refresh
CallHandlePageScroll == handlePageScroll
CallDestroy == destroy
NotifyIntersection ==
  \E E \in (SUBSET ioTargets) \ {{}} : \E entries \in [E -> BOOLEAN] :
    IntersectionNotify(E, entries)
RunFrame == \E f \in rafQueue : FireFrame(f)
ScrollPage == \E y \in 0 .. MaxScroll : PageScroll(y)
InsertTable == \E t \in Tables : AddTable(t)
DetachTable == \E t \in Tables : \E self \in BOOLEAN : RemoveTable(t, self)

Next ==
  \/ CallInit
  \/ CallRefresh
  \/ CallHandlePageScroll
  \/ CallDestroy
  \/ ResizeObserverNotify
  \/ WindowResize
  \/ NotifyIntersection
  \/ ScrollPage
  \/ RunFrame
  \/ InsertTable
  \/ DetachTable

Spec == Init /\ [][Next]_vars
SpecPlain == InitPlain /\ [][Next]_vars
SpecExample == InitExample /\ [][Next]_vars
SpecFaulty == InitFaulty /\ [][Next]_vars
SpecIrregular == InitIrregular /\ [][Next]_vars
SpecBanner == InitBanner /\ [][Next]_vars

\* the requests requestAnimationFrame can hold: a slot has one pending frame,
\* and the frame that replaces a cancelled one has the other handle
Frames == { [id |-> Handle(ClassOf(kind), n), kind |-> kind] : kind \in FrameKinds, n \in 0 .. 1 }

\* the browser runs every requested callback at the next frame: a request that
\* stays requested (is not cancelled) is run
FairSpec == Spec /\ \A f \in Frames : WF_vars(FireFrame(f))

(***************************************************************************)
(* Properties                                                              *)
(***************************************************************************)
InitResults == { "init:true", "init:false" }
DestroyResults == { "destroy", "destroy:again" }

\* no listener, no observer, no pending frame, empty tracking sets
Quiet ==
  /\ windowListeners = {} /\ ~scrollListenerAttached
  /\ ~resizeObserver /\ ~intersectionObserver /\ ~mutationObserver
  /\ roTargets = {} /\ ioTargets = {}
  /\ rafQueue = {} /\ refreshRaf = 0 /\ scrollRaf = 0 /\ mutationRaf = 0
  /\ observedTables = {} /\ tablesInStickyZone = {}

\* the table carries no sticky position, offset or marker
Unstyled(t) == styles[t] = CleanTable(t)

\* C1: once the controller is destroyed, a call of init returns false and
\* changes nothing of the controller or the host: no listener, observer or
\* frame exists before or after it, and both tracking sets stay empty.
C1_DestroyedIsTerminal ==
  [][ (isDestroyed /\ result' \in InitResults)
        => /\ result' = "init:false"
           /\ Quiet /\ Quiet'
           /\ isDestroyed' /\ ~isInitialized'
           /\ UNCHANGED << ctrlVars, hostVars, domVars >> ]_vars

\* C1: init was called, and rejected, on a destroyed controller
C1_Witness == isDestroyed /\ result = "init:false"

\* C2: a call of init on an initialized controller returns false and leaves
\* the listeners, the observers, the frame slots, both tracking sets and every
\* table's positioning state as they were.
C2_InitTwiceRejected ==
  [][ (isInitialized /\ result' \in InitResults)
        => /\ result' = "init:false"
           /\ UNCHANGED << ctrlVars, hostVars, domVars >> ]_vars

\* C2: init was called, and rejected, on an initialized controller whose
\* table is frozen and which has a frame pending
C2_Witness ==
  /\ isInitialized /\ result = "init:false"
  /\ rafQueue # {}
  /\ \E t \in inDoc : ~Unstyled(t)

\* C3: init on a fresh controller whose offsetSelector is no string returns
\* false, attaches and schedules nothing, styles no table and leaves the
\* controller uninitialized.
C3_InvalidOptionRejected ==
  [][ ( /\ offsetSelector \in { "falsy", "truthy" }
        /\ ~isDestroyed /\ ~isInitialized
        /\ result' \in InitResults )
        => /\ result' = "init:false"
           /\ ~isInitialized'
           /\ Quiet'
           /\ UNCHANGED << ctrlVars, hostVars, domVars >> ]_vars

\* C3: init returned true for an offsetSelector that is falsy and no string
C3_Witness ==
  /\ offsetSelector = "falsy" /\ result = "init:true"
  /\ isInitialized /\ "resize" \in windowListeners
  /\ \E t \in inDoc : ~Unstyled(t)

\* C4: after any call of destroy no frame is pending, no listener is
\* attached, the three observers are disconnected, both tracking sets are
\* empty and no table in the document carries positioning state.
C4_DestroyLeavesNothing ==
  [][ result' \in DestroyResults
        => /\ Quiet'
           /\ \A t \in inDoc' : Unstyled(t)' ]_vars

\* C4: destroy returned and a table in the document is frozen
C4_Witness ==
  /\ result \in DestroyResults
  /\ \E t \in inDoc : ~Unstyled(t)

\* C5: a call of destroy on a destroyed controller changes neither the
\* controller nor the host nor any table's positioning state.
C5_DestroyIdempotent ==
  [][ (isDestroyed /\ result' \in DestroyResults)
        => UNCHANGED << ctrlVars, hostVars, domVars >> ]_vars

\* C5: destroy was called again on a destroyed controller
C5_Witness == isDestroyed /\ result = "destroy:again"

\* The call of destroy that tears the controller down leaves no frame, no
\* listener, no observer, empty tracking sets and no frozen table in the
\* document.
TeardownLeavesNothing ==
  [][ result' = "destroy"
        => /\ Quiet'
           /\ \A t \in inDoc' : Unstyled(t)' ]_vars

\* C6: init right after the destroy that tore the controller down returns
\* false, and no cell of any table the page owns, in the document or
\* detached from it, keeps a marker or a sticky offset.
C6_DestroyThenInitLeavesDomClean ==
  [][ (result = "destroy" /\ result' \in InitResults)
        => /\ result' = "init:false"
           /\ \A t \in page : Unstyled(t)' ]_vars

\* C6: init was rejected on a destroyed controller while a table that was
\* frozen and then detached still carries its positioning state
C6_Witness ==
  /\ isDestroyed /\ result = "init:false"
  /\ \E t \in page \ inDoc : ~Unstyled(t)

\* C7: while the controller is initialized and has its IntersectionObserver,
\* the scroll listener is attached exactly when _tablesInStickyZone is not
\* empty.
C7_ListenerIffStickyZone ==
  (isInitialized /\ ~isDestroyed /\ intersectionObserver)
    => /\ scrollListenerAttached <=> tablesInStickyZone # {}
       /\ scrollListenerAttached <=> "scroll" \in windowListeners

\* C7: the scroll listener is attached although no table is in the sticky zone
C7_Witness ==
  /\ isInitialized /\ intersectionObserver
  /\ scrollListenerAttached /\ "scroll" \in windowListeners
  /\ tablesInStickyZone = {}

\* C8: while the controller is initialized and has its IntersectionObserver,
\* the scroll listener is attached exactly when the latest intersection entry
\* of some table the observer watches reported isIntersecting = true.
C8_ListenerIffLatestEntryIntersects ==
  (isInitialized /\ ~isDestroyed /\ intersectionObserver)
    => (scrollListenerAttached <=> \E t \in ioTargets : lastIsect[t] = "true")

\* C8: a watched table's latest entry reported isIntersecting = true and the
\* scroll listener is not attached
C8_Witness ==
  /\ isInitialized /\ intersectionObserver
  /\ \E t \in ioTargets : lastIsect[t] = "true"
  /\ ~scrollListenerAttached

\* C9: on a host without IntersectionObserver init is rejected only for a
\* destroyed or initialized controller, and from init until destroy the
\* scroll listener is attached.
C9_FallbackListenerPermanent ==
  ~hasIO
    => /\ result = "init:true" => isInitialized
       /\ result = "init:false" => (isDestroyed \/ isInitialized \/ invalidOffsetSelector)
       /\ isInitialized => (scrollListenerAttached /\ "scroll" \in windowListeners)
       /\ tablesInStickyZone = {}

\* C9: initialized without IntersectionObserver, the listener has handled a
\* scroll event and the frame it requested has run
C9_Witness ==
  /\ ~hasIO /\ isInitialized
  /\ scrollListenerAttached /\ "scroll" \in windowListeners
  /\ scrollY # 0 /\ notes["scroll"] = 0 /\ scrollRaf = 0

\* C10: each trigger class has at most one requested frame, held in its slot;
\* a class that received notifications since its frame last ran has exactly
\* one frame pending, so the frame's single run serves all of them.
C10_OneFramePerClass ==
  /\ \A k \in TriggerClasses :
       /\ Cardinality(Pending(rafQueue, k)) <= 1
       /\ notes[k] > 0 <=> Pending(rafQueue, k) # {}
  /\ FrameIds(Pending(rafQueue, "refresh")) = { refreshRaf } \ {0}
  /\ FrameIds(Pending(rafQueue, "mutation")) = { mutationRaf } \ {0}
  /\ FrameIds(Pending(rafQueue, "scroll")) = { scrollRaf } \ {0}

\* C10: every class received several notifications and has one frame pending
C10_Witness ==
  \A k \in TriggerClasses :
    notes[k] >= 2 /\ Cardinality(Pending(rafQueue, k)) = 1

\* a notification reaches one of the controller's handlers
HandlerStep ==
  \/ ResizeObserverNotify
  \/ WindowResize
  \/ NotifyIntersection
  \/ ScrollPage
  \/ InsertTable
  \/ DetachTable

\* C11: the step in which a notification handler runs (ResizeObserver
\* callback, _onResize, MutationObserver callback, _onIntersection, _onScroll)
\* changes no table's positioning state.
C11_HandlersDeferStyling ==
  [][ HandlerStep => UNCHANGED styles ]_vars

MutationFrameStep == mutationRaf # 0 /\ mutationRaf' = 0 /\ ~isDestroyed'

\* C13: when the frame requested by a mutation notification has run, the
\* observed tables are exactly the managed tables of the document: a table of
\* the document that was not tracked is a target of the observers that exist,
\* and a tracked table that left the document is a target of neither and is in
\* neither _observedTables nor _tablesInStickyZone.
C13_MutationFrameSyncsObservers ==
  [][ MutationFrameStep =>
        /\ observedTables' = inDoc'
        /\ \A t \in inDoc' \ observedTables :
             /\ resizeObserver => t \in roTargets'
             /\ intersectionObserver => t \in ioTargets'
        /\ \A t \in observedTables \ inDoc' :
             /\ t \notin roTargets' /\ t \notin ioTargets'
             /\ t \notin observedTables' /\ t \notin tablesInStickyZone' ]_vars

\* C13: a mutation frame is about to run while a table that is tracked, a
\* target of both observers and in the sticky zone has left the document
C13_Witness ==
  /\ isInitialized /\ resizeObserver /\ intersectionObserver
  /\ mutationRaf # 0 /\ Pending(rafQueue, "mutation") # {}
  /\ observedTables \ inDoc # {}
  /\ (observedTables \ inDoc) \subseteq (roTargets \cap ioTargets \cap tablesInStickyZone)

\* a managed table that is tracked and has left the document is dropped from
\* _observedTables, _tablesInStickyZone and both observers, unless it comes back
LeftTablesDropped ==
  \A t \in Tables :
    (isInitialized /\ t \in observedTables /\ t \notin inDoc)
      ~> \/ t \in inDoc
         \/ /\ t \notin observedTables /\ t \notin tablesInStickyZone
            /\ t \notin roTargets /\ t \notin ioTargets

\* a managed table whose insertion was notified to an initialized controller
\* becomes tracked, unless it leaves again or destroy() is called
AddedTablesObserved ==
  \A t \in Tables :
    (isInitialized /\ notes["mutation"] > 0 /\ t \in inDoc /\ t \notin observedTables)
      ~> (t \notin inDoc \/ t \in observedTables \/ isDestroyed)

\* C14: every managed table that leaves the document, removed itself or with an
\* ancestor, is eventually dropped from the tracking sets and the observers, and
\* every managed table added to the document is eventually observed.
C14_TablesEventuallyTracked == LeftTablesDropped /\ AddedTablesObserved

\* C15: after refresh() has run, running it again with the tables and their
\* measurements unchanged leaves every cell's position, left, top and classes
\* (and the tables' freeze attributes) as the first run left them.
C15_RefreshIdempotent ==
  [][ refresh => /\ applyAllStyles(styles', freezeAttr', inDoc') = styles'
                 /\ applyAllAttrs(freezeAttr', inDoc') = freezeAttr' ]_vars

\* C15: a table of the document carries positioning state that a refresh() would
\* replace: what an earlier pass (handlePageScroll) left differs from a recompute
C15_Witness ==
  \E t \in inDoc :
    /\ styles[t] # CleanTable(t)
    /\ applyFreezeStyles(t, styles[t], freezeAttr[t].row, freezeAttr[t].col) # styles[t]

\* C16: a cell frozen on both axes carries freeze-both alone of the three
\* markers: no cell has freeze-both together with freeze-row or freeze-col,
\* and no cell has freeze-row and freeze-col together.
C16_CornerCarriesCombinedMarkerOnly ==
  \A t \in page : \A id \in CellsOf(t) :
    /\ "freeze-both" \in styles[t][id].classes
         => styles[t][id].classes \cap { "freeze-row", "freeze-col" } = {}
    /\ ~({ "freeze-row", "freeze-col" } \subseteq styles[t][id].classes)

\* the cells of a table that hold frozen state: sticky, or carrying a freeze class
FrozenCells(s) ==
  { id \in DOMAIN s : s[id].position = "sticky" \/ s[id].classes \cap FreezeClasses # {} }

\* the cells a single recompute freezes, from the table's two counts
RecomputedCells(t, rowRaw, colRaw) ==
  FrozenCells(applyFreezeStyles(t, CleanTable(t), rowRaw, colRaw))

\* the cells of the first rowFreeze rows and of the columns before colFreeze
CartesianCells(t, rowFreeze, colFreeze) ==
  { id \in CellsOf(t) : id[1] < rowFreeze \/ id[2] < colFreeze }

\* a recompute trigger: refresh(), a frame of any class, an intersection notification
TriggerStep == CallRefresh \/ RunFrame \/ NotifyIntersection

\* C17: for the table without spans, after every recompute trigger the cells
\* holding frozen state are exactly the cells of the frozen rows and of the
\* columns before colFreeze, the set a single recompute produces.
C17_PlainTableFrozenSetIsCartesian ==
  [][ TriggerStep =>
        \A t \in inDoc' \cap { PlainTable } :
          /\ FrozenCells(styles'[t]) = RecomputedCells(t, freezeAttr'[t].row, freezeAttr'[t].col)
          /\ FrozenCells(styles'[t]) = CartesianCells(t, getFreezeCount(freezeAttr'[t].row), getFreezeCount(freezeAttr'[t].col)) ]_vars

\* the cells on which row freezing has been applied: freeze-row, or freeze-both
\* where corner priority has replaced it
RowFrozenCells(s) ==
  { id \in DOMAIN s : s[id].classes \cap { "freeze-row", "freeze-both" } # {} }

\* C18: after refresh() a table with H header rows and data-row-freeze = n has
\* the cells of its header rows and of its first n body rows frozen by row:
\* the rows 0 .. H+n-1 of table.rows, whatever n is.
C18_HeadersAndBodyRowsFrozen ==
  [][ refresh =>
        \A t \in inDoc' :
          RowFrozenCells(styles'[t])
            = { id \in CellsOf(t) : id[1] < NumHead(t) + getFreezeCount(freezeAttr'[t].row) } ]_vars

\* the last column reached by a cell that starts before colFreeze, at least colFreeze - 1
ReachedColumn(matrixData, colFreeze) ==
  SetMax({ colFreeze - 1 } \cup
         { matrixData.cellInfo[c].col + matrixData.cellInfo[c].colspan - 1 :
             c \in { d \in DOMAIN matrixData.cellInfo : matrixData.cellInfo[d].col < colFreeze } },
         colFreeze - 1)

\* C19: for the grid of the page's table and every colFreeze > 0, every cell that starts
\* in a column before colFreeze is frozen, and getColumnBoundaryIndex is the
\* largest end column (col + colspan - 1) of those cells, at least colFreeze - 1.
C19_ColumnBoundaryIsLastSpannedColumn ==
  \A t \in page : \A colFreeze \in 1 .. matrixOf[t].maxCol :
    /\ { c \in DOMAIN matrixOf[t].cellInfo : matrixOf[t].cellInfo[c].col < colFreeze }
         \subseteq getCellsForColumnFreeze(matrixOf[t], colFreeze)
    /\ getColumnBoundaryIndex(matrixOf[t], colFreeze) = ReachedColumn(matrixOf[t], colFreeze)

\* the last tbody row reached by a cell that starts in the first rowFreeze rows
\* of tbody, at least rowFreeze - 1
ReachedRow(t, matrixData, rowFreeze) ==
  SetMax({ rowFreeze - 1 } \cup
         { (c[1] - NumHead(t)) + matrixData.cellInfo[c].rowspan - 1 :
             c \in { d \in DOMAIN matrixData.cellInfo :
                       d[1] >= NumHead(t) /\ d[1] - NumHead(t) < rowFreeze } },
         rowFreeze - 1)

\* C20: for the grid of the page's table and every rowFreeze > 0, getRowBoundaryIndex is
\* the largest end row (row + rowspan - 1) of the cells that start in the
\* frozen rows: a rowspan=2 cell that starts in the last frozen row moves it
\* one row past rowFreeze - 1.
C20_RowBoundaryIsLastSpannedRow ==
  \A t \in page : \A rowFreeze \in 1 .. Len(BodyRows(t)) :
    getRowBoundaryIndex(t, matrixOf[t], rowFreeze) = ReachedRow(t, matrixOf[t], rowFreeze)

\* the cells on which column freezing has been applied: freeze-col, or
\* freeze-both where corner priority has replaced it
ColFrozenCells(s) ==
  { id \in DOMAIN s : s[id].classes \cap { "freeze-col", "freeze-both" } # {} }

\* the cells of a table whose origin is a logical column before colFreeze
CellsBeforeColumn(t, colFreeze) ==
  { c \in DOMAIN matrixOf[t].cellInfo : matrixOf[t].cellInfo[c].col < colFreeze }

\* C21: after a recompute of the page's table with any column count colFreeze,
\* a cell is frozen by column exactly when its origin logical column is before
\* colFreeze, also when the first row has cells with colspan > 1.
C21_ColumnFrozenIffOriginBeforeCount ==
  \A t \in page : \A colFreeze \in 0 .. matrixOf[t].maxCol :
    ColFrozenCells(freezeStylesWith(t, styles[t], getFreezeCount(freezeAttr[t].row), colFreeze))
      = CellsBeforeColumn(t, colFreeze)

\* C22: after a recompute of the page's table with any column count colFreeze,
\* every column-frozen cell whose origin is logical column k has as left offset
\* the widths of the logical columns 0 .. k-1 added up.
C22_LeftOffsetIsSumOfLogicalWidths ==
  \A t \in page : \A colFreeze \in 1 .. matrixOf[t].maxCol :
    \A id \in ColFrozenCells(freezeStylesWith(t, styles[t], getFreezeCount(freezeAttr[t].row), colFreeze)) :
      freezeStylesWith(t, styles[t], getFreezeCount(freezeAttr[t].row), colFreeze)[id].left
        = matrixOf[t].cellInfo[id].col * ColPx

\* the cells of the example table: its header row, and the first two columns
\* of its body rows
ExampleHeaderCells == { <<0, c>> : c \in 0 .. 3 }
ExampleColumnCells == { <<r, c>> : r \in 1 .. 3, c \in 0 .. 1 }

\* C23: for the table with 1 header row, 3 body rows and 4 columns, no spans,
\* rowFreeze = 1, colFreeze = 2, column widths [50,80,60,60] and row heights
\* [30,40,40,40], a recompute freezes all cells of row 0 and the cells in
\* columns 0 and 1 of rows 1 to 3, gives columns 0 and 1 the left offsets 0 and
\* 50, the header row the top offset 0 and the frozen-column cells of the first
\* body row the top offset 30.
C23_ExampleTableOffsets ==
  \A t \in page \cap { ExampleTable } :
    /\ FrozenCells(freezeStylesWith(t, styles[t], 1, 2))
         = ExampleHeaderCells \cup ExampleColumnCells
    /\ \A id \in ExampleColumnCells \cup { <<0, 0>>, <<0, 1>> } :
         freezeStylesWith(t, styles[t], 1, 2)[id].left = (IF id[2] = 0 THEN 0 ELSE 50)
    /\ \A id \in ExampleHeaderCells : freezeStylesWith(t, styles[t], 1, 2)[id].top = 0
    /\ \A id \in { <<1, 0>>, <<1, 1>> } : freezeStylesWith(t, styles[t], 1, 2)[id].top = 30

\* the positioning state of table t after a recompute with rowFreeze frozen rows
\* followed by a positional update at the current scroll position
ScrolledAfterRecompute(t, rowFreeze) ==
  scrollTable(t, freezeStylesWith(t, styles[t], rowFreeze, getFreezeCount(freezeAttr[t].col)),
              Num(rowFreeze), freezeAttr[t].col, getStickyOffset(offsetSelector), scrollY)

\* the top offset of row r when the frozen rows are stacked from stickyTop
StackedTop(t, stickyOffset, y, r) ==
  Max(0, stickyOffset - TableRectTop(t, y)) + SumTo([ i \in 1 .. NumRows(t) |-> RowPx(t, i - 1) ], r)

\* C24: when a positional update runs for a table whose container satisfies
\* top <= activationOffset < bottom, the top offsets of its frozen rows (the
\* header rows, then the first rowFreeze body rows) become s, s+h0, s+h0+h1, ...
\* with s = max(0, activationOffset - tableTopInViewport), for every
\* rowFreeze >= 0, header rows being repositioned also when rowFreeze = 0.
C24_InBandTopsStackFromStickyTop ==
  \A t \in page : \A rowFreeze \in 0 .. Len(BodyRows(t)) :
    isInStickyZone(t, getStickyOffset(offsetSelector), scrollY)
      => \A id \in CellsOf(t) :
           id[1] < NumHead(t) + rowFreeze
             => ScrolledAfterRecompute(t, rowFreeze)[id].top
                  = StackedTop(t, getStickyOffset(offsetSelector), scrollY, id[1])

\* the table is outside the activation band at the current scroll position
OutOfBand(t) == ~isInStickyZone(t, getStickyOffset(offsetSelector), scrollY)

\* C25: when a positional update runs for a table whose container is outside
\* the activation band, the top offset of every cell of its frozen rows (of
\* every cell of the table) equals afterwards the static top offset a full
\* recompute of the table produces, whatever tops were set before.
C25_OutOfBandTopsAreStatic ==
  \A t \in inDoc :
    OutOfBand(t)
      => \A id \in CellsOf(t) :
           scrollTable(t, styles[t], freezeAttr[t].row, freezeAttr[t].col,
                       getStickyOffset(offsetSelector), scrollY)[id].top
             = applyFreezeStyles(t, styles[t], freezeAttr[t].row, freezeAttr[t].col)[id].top

\* a table outside the band still carries a scroll-relative top on a frozen row
C25_Witness ==
  \E t \in inDoc :
    /\ OutOfBand(t)
    /\ \E id \in CellsOf(t) :
         /\ styles[t][id].top # NoPx
         /\ styles[t][id].top
              # applyFreezeStyles(t, styles[t], freezeAttr[t].row, freezeAttr[t].col)[id].top

\* the complete positioning state of a table: what a recompute of the table on
\* its own produces
CompleteState(t) == applyFreezeStyles(t, CleanTable(t), RowFreezeAttr(t), ColFreezeAttr(t))

\* a table of the page fails in a recompute: it is detached, or measuring one of
\* its cells throws
FailingTables == (page \ inDoc) \cup { t \in inDoc : \E id \in CellsOf(t) : RectThrows(t, id) }

\* C26: during a recompute over all managed tables (refresh()), a failure while processing
\* one table (a detached table, an error thrown while measuring it) does not
\* keep any other managed table of the document from receiving its complete
\* positioning state in the same recompute, and leaves the lifecycle state, the
\* listeners and the registries as they were.
C26_FailureOnOneTableIsContained ==
  [][ refresh /\ FailingTables # {}
        => /\ \A t \in inDoc \ FailingTables : styles'[t] = CompleteState(t)
           /\ UNCHANGED << isDestroyed, isInitialized, windowListeners,
                           scrollListenerAttached, resizeObserver, intersectionObserver,
                           mutationObserver, observedTables, tablesInStickyZone,
                           roTargets, ioTargets >> ]_vars

\* C26: a recompute has run over the two tables of the page: the table that
\* cannot be measured has its rows frozen and no column, the other one holds its
\* complete positioning state
C26_Witness ==
  /\ inDoc = { BrokenTable, PlainTable }
  /\ RowFrozenCells(styles[BrokenTable]) # {}
  /\ ColFrozenCells(styles[BrokenTable]) = {}
  /\ styles[PlainTable] = CompleteState(PlainTable)
  /\ styles[PlainTable] # CleanTable(PlainTable)

\* the left offset of logical column k when a column that cannot be measured
\* counts 0
LeftWithFailedSlots(t, k) ==
  SumTo([ i \in 1 .. Len(TableRows(t)[1]) |->
            IF RectThrows(t, <<0, i - 1>>) THEN 0 ELSE RectWidth(t, <<0, i - 1>>) ], k)

\* C27: if measuring one column's width fails during a recompute, the slot
\* counts 0 in the cumulative offsets and the recompute still freezes the
\* columns before colFreeze with their offsets: the column axis of the table is
\* not left unfrozen.
C27_FailedMeasurementCountsZero ==
  \A t \in page :
    (\E id \in RowCells(t, 0) : RectThrows(t, id))
      => /\ ColFrozenCells(applyFreezeStyles(t, styles[t], freezeAttr[t].row, freezeAttr[t].col))
              = CellsBeforeColumn(t, getFreezeCount(freezeAttr[t].col))
         /\ \A id \in CellsBeforeColumn(t, getFreezeCount(freezeAttr[t].col)) :
              applyFreezeStyles(t, styles[t], freezeAttr[t].row, freezeAttr[t].col)[id].left
                = LeftWithFailedSlots(t, matrixOf[t].cellInfo[id].col)

\* the top offsets of the cells of a table
TopsOf(s) == [ id \in DOMAIN s |-> s[id].top ]

\* the table is alone in the sticky zone, watched and tracked, the scroll
\* listener is attached and no frame is pending
AloneInStickyZone(t) ==
  /\ isInitialized /\ ~isDestroyed /\ intersectionObserver
  /\ tablesInStickyZone = { t }
  /\ t \in inDoc /\ t \in observedTables /\ t \in ioTargets
  /\ scrollListenerAttached
  /\ rafQueue = {}

\* C28: for a table in the sticky zone with top offsets O, an intersection
\* notification with isIntersecting = false that empties the zone (the
\* listener is detached, no cell is touched) followed by one with
\* isIntersecting = true at the same geometry and scroll position (the listener
\* is attached again and handlePageScroll runs over the zone) leaves the
\* table's top offsets exactly O.
C28_ReattachRestoresOffsets ==
  \A t \in page :
    AloneInStickyZone(t)
      => /\ zoneAfterEntries(tablesInStickyZone, [ u \in { t } |-> FALSE ]) = {}
         /\ zoneAfterEntries({}, [ u \in { t } |-> TRUE ]) = { t }
         /\ TopsOf(handlePageScrollStyles(styles, freezeAttr, { t }, inDoc, scrollY)[t])
              = TopsOf(styles[t])

\* the positions of the grid that refer to a cell
PositionsOf(matrixData, cell) == { p \in DOMAIN matrixData.matrix : matrixData.matrix[p] = cell }

\* C29: for every table with R logical rows and C logical columns, every
\* position of [0,R) x [0,C) of the grid buildCellMatrix returns refers to one
\* cell (none is empty), and the positions referring to a cell are exactly the
\* rectangle of its rowspan x colspan at its recorded origin.
C29_GridIsCoveredByCellRectangles ==
  \A t \in page :
    /\ \A r \in 0 .. matrixOf[t].maxRow - 1 : \A c \in 0 .. matrixOf[t].maxCol - 1 :
         /\ <<r, c>> \in DOMAIN matrixOf[t].matrix
         /\ matrixOf[t].matrix[<<r, c>>] \in DOMAIN matrixOf[t].cellInfo
    /\ \A cell \in DOMAIN matrixOf[t].cellInfo :
         PositionsOf(matrixOf[t], cell)
           = Rect(matrixOf[t].cellInfo[cell].row, matrixOf[t].cellInfo[cell].col,
                  matrixOf[t].cellInfo[cell].rowspan, matrixOf[t].cellInfo[cell].colspan)

\* the attribute declares no positive integer
BadSpan(raw) == raw.kind # "absent" /\ raw.val <= 0

\* C30: a cell whose declared rowspan or colspan is zero or negative is
\* recorded with that extent as 1: it owns its origin position, the next cell
\* of its row is placed at a later column, and every recorded rowspan and
\* colspan is an integer >= 1.
C30_BadSpansAreRecordedAsOne ==
  \A t \in page :
    /\ \A cell \in DOMAIN matrixOf[t].cellInfo :
         /\ matrixOf[t].cellInfo[cell].rowspan >= 1
         /\ matrixOf[t].cellInfo[cell].colspan >= 1
    /\ \A cell \in CellsOf(t) :
         (BadSpan(CellAt(t, cell).rowspan) \/ BadSpan(CellAt(t, cell).colspan))
           => /\ BadSpan(CellAt(t, cell).rowspan) => matrixOf[t].cellInfo[cell].rowspan = 1
              /\ BadSpan(CellAt(t, cell).colspan) => matrixOf[t].cellInfo[cell].colspan = 1
              /\ <<cell[1], matrixOf[t].cellInfo[cell].col>> \in DOMAIN matrixOf[t].matrix
              /\ matrixOf[t].matrix[<<cell[1], matrixOf[t].cellInfo[cell].col>>] = cell
              /\ \A next \in RowCells(t, cell[1]) :
                   next[2] > cell[2]
                     => matrixOf[t].cellInfo[next].col > matrixOf[t].cellInfo[cell].col

\* cell a is processed before cell b: rows in order, the cells of a row in order
ProcessedBefore(a, b) == a[1] < b[1] \/ (a[1] = b[1] /\ a[2] < b[2])

\* the rectangle a cell declares at its recorded origin
DeclaredRect(matrixData, cell) ==
  Rect(matrixData.cellInfo[cell].row, matrixData.cellInfo[cell].col,
       matrixData.cellInfo[cell].rowspan, matrixData.cellInfo[cell].colspan)

\* C31: where a cell's declared rectangle overlaps a position already claimed
\* by a cell processed earlier, the position keeps the first cell that claimed
\* it: every written position refers to the earliest processed cell whose
\* rectangle holds it.
C31_FirstClaimKeepsPosition ==
  \A t \in page :
    \A p \in DOMAIN matrixOf[t].matrix :
      \A cell \in DOMAIN matrixOf[t].cellInfo :
        p \in DeclaredRect(matrixOf[t], cell)
          => ~ProcessedBefore(cell, matrixOf[t].matrix[p])

\* the step of a scroll frame's callback: the slot is cleared while the
\* listener stays attached (_detachScrollListener and destroy() clear it too,
\* and detach the listener)
ScrollFrameStep ==
  scrollRaf # 0 /\ scrollRaf' = 0 /\ scrollListenerAttached /\ scrollListenerAttached'

\* C32: while the controller has its IntersectionObserver, the frame of a
\* scroll notification changes the positioning state of no managed table that
\* is outside _tablesInStickyZone when the frame fires.
C32_ScrollFrameTouchesZoneOnly ==
  [][ ScrollFrameStep /\ intersectionObserver
        => \A t \in page \ tablesInStickyZone : styles'[t] = styles[t] ]_vars

\* C33: the frame of a scroll notification is positional-only: for every table
\* it changes nothing but top offsets of cells that are already frozen; every
\* cell keeps its markers, its sticky flag and its left offset.
C33_ScrollFrameIsPositionalOnly ==
  [][ ScrollFrameStep
        => \A t \in page : \A id \in CellsOf(t) :
             /\ styles'[t][id].classes = styles[t][id].classes
             /\ styles'[t][id].position = styles[t][id].position
             /\ styles'[t][id].left = styles[t][id].left
             /\ styles'[t][id].top # styles[t][id].top => id \in FrozenCells(styles[t]) ]_vars

\* the pending frame of handle old is gone and the slot holds a new pending one
Superseded(old, slot, q) ==
  /\ slot # 0 /\ slot # old
  /\ old \notin FrameIds(q)
  /\ slot \in FrameIds(q)

\* C34: for every trigger class, a notification that arrives while a frame of
\* the class is pending cancels that frame and schedules a new one (last write
\* wins): after a ResizeObserver notification or a window resize with the
\* refresh slot set, after a mutation notification with the mutation slot set
\* and after a scroll event with the scroll slot set, the old handle is no
\* longer pending and the slot holds a newly requested frame.
C34_LatestNotificationSupersedesPending ==
  [][ /\ (ResizeObserverNotify \/ WindowResize) /\ refreshRaf # 0
         => Superseded(refreshRaf, refreshRaf', rafQueue')
      /\ (InsertTable \/ \E t \in Tables : RemoveTable(t, TRUE)) /\ mutationObserver /\ mutationRaf # 0
         => Superseded(mutationRaf, mutationRaf', rafQueue')
      /\ ScrollPage /\ "scroll" \in windowListeners /\ scrollRaf # 0
         => Superseded(scrollRaf, scrollRaf', rafQueue') ]_vars

\* the column-frozen cells of s that carry / should carry the column boundary
\* marker: those whose last column reaches boundaryCol
ColMarked(s) ==
  { id \in ColFrozenCells(s) : "freeze-boundary-col" \in s[id].classes }
ReachingColumn(t, s, boundaryCol) ==
  { id \in ColFrozenCells(s) :
      matrixOf[t].cellInfo[id].col + matrixOf[t].cellInfo[id].colspan - 1 >= boundaryCol }
\* the same for the row-frozen cells and the row boundary marker
RowMarked(s) ==
  { id \in RowFrozenCells(s) : "freeze-boundary-row" \in s[id].classes }
ReachingRow(t, s, boundaryRow) ==
  { id \in RowFrozenCells(s) : id[1] + matrixOf[t].cellInfo[id].rowspan - 1 >= boundaryRow }

\* C35: after a recompute of the page's table with any column count
\* colFreeze > 0, a column-frozen cell carries freeze-boundary-col exactly when
\* its last column (origin column + colspan - 1) reaches the column boundary
\* index of that count, also when the cell starts in an earlier column; and
\* with any row count rowFreeze > 0 a row-frozen cell carries
\* freeze-boundary-row exactly when its last row reaches the row boundary index.
C35_BoundaryMarkerIffExtentReachesBoundary ==
  \A t \in page :
    /\ \A colFreeze \in 1 .. matrixOf[t].maxCol :
         ColMarked(freezeStylesWith(t, styles[t], getFreezeCount(freezeAttr[t].row), colFreeze))
           = ReachingColumn(t, freezeStylesWith(t, styles[t], getFreezeCount(freezeAttr[t].row), colFreeze),
                            columnBoundaryOf[t][colFreeze])
    /\ \A rowFreeze \in 1 .. NumRows(t) :
         RowMarked(freezeStylesWith(t, styles[t], rowFreeze, getFreezeCount(freezeAttr[t].col)))
           = ReachingRow(t, freezeStylesWith(t, styles[t], rowFreeze, getFreezeCount(freezeAttr[t].col)),
                         rowBoundaryOf[t][rowFreeze])

C37_DestroyedControllerStylesNothing ==
  isDestroyed => \A t \in inDoc : Unstyled(t)

\* C38: after every call of init that returns true and has created the
\* IntersectionObserver, with or without a ResizeObserver on the host, each
\* managed table of the document is in _observedTables, so that the entries
\* the IntersectionObserver delivers for it are honoured.
C38_InitObservesEveryTable ==
  [][ (result' = "init:true" /\ intersectionObserver')
        => inDoc' \subseteq observedTables' ]_vars

(***************************************************************************)
(* utils/freeze-appliers of the modular variant (no span handling): a cell *)
(* is addressed by its row and its index in row.children                   *)
(***************************************************************************)
measureHeaderRowHeights(t) == [ i \in 1 .. NumHead(t) |-> Max(0, RowPx(t, i - 1)) ]
measureBodyRowHeights(t, rowCount) ==
  IF ~HasTbody(t) \/ rowCount <= 0 THEN << >>
  ELSE [ i \in 1 .. Min(rowCount, Len(BodyRows(t))) |-> Max(0, RowPx(t, NumHead(t) + i - 1)) ]

\* applyColumnFreeze: the first actualColFreeze children of every tr
modularColumnFreeze(t, s, colFreeze) ==
  IF colFreeze <= 0 \/ Len(widthsOf[t]) = 0 THEN s
  ELSE [ id \in DOMAIN s |->
           IF id[2] < Min(colFreeze, Len(widthsOf[t]))
           THEN [ s[id] EXCEPT !.left = LeftOffset(widthsOf[t], id[2]),
                               !.classes = @ \cup {"freeze-col"} \cup
                                 (IF id[2] = Min(colFreeze, Len(widthsOf[t])) - 1
                                  THEN {"freeze-boundary-col"} ELSE {}) ]
           ELSE s[id] ]

\* applyRowFreeze: every row of thead, then tbody.rows.slice(0, rowFreeze)
modularRowFreeze(t, s, rowFreeze) ==
  [ id \in DOMAIN s |->
      IF id[1] < NumHead(t)
      THEN [ s[id] EXCEPT !.top = SumTo(measureHeaderRowHeights(t), id[1]),
                          !.classes = @ \cup {"freeze-row"} ]
      ELSE IF rowFreeze > 0 /\ id[1] - NumHead(t) < rowFreeze
      THEN [ s[id] EXCEPT !.top = SumTo(measureHeaderRowHeights(t), NumHead(t))
                                    + SumTo(measureBodyRowHeights(t, rowFreeze), id[1] - NumHead(t)),
                          !.classes = @ \cup {"freeze-row"} \cup
                            (IF id[1] - NumHead(t) = rowFreeze - 1
                             THEN {"freeze-boundary-row"} ELSE {}) ]
      ELSE s[id] ]

\* applyCornerPriority: freeze-corner is added, freeze-row and freeze-col stay
modularCornerPriority(t, s, colFreeze) ==
  IF colFreeze <= 0 THEN s
  ELSE [ id \in DOMAIN s |->
           IF id[2] < colFreeze /\ "freeze-row" \in s[id].classes
           THEN [ s[id] EXCEPT !.classes = @ \cup {"freeze-corner"} ]
           ELSE s[id] ]

\* applyFreezeToTable of the variant: clear, rows, columns, corners
modularStylesWith(t, s, rowFreeze, colFreeze) ==
  modularCornerPriority(t,
    modularColumnFreeze(t,
      modularRowFreeze(t, clearFreezeStyles(t, s), rowFreeze),
      colFreeze),
    colFreeze)

\* a and b freeze the same cells by row and by column, mark the same cells as
\* boundaries and give every cell the same left and top; a is the span-aware
\* result, where freeze-both stands for freeze-row and freeze-col
SameFreezeOutcome(a, b) ==
  /\ RowFrozenCells(a) = { id \in DOMAIN b : "freeze-row" \in b[id].classes }
  /\ ColFrozenCells(a) = { id \in DOMAIN b : "freeze-col" \in b[id].classes }
  /\ \A id \in DOMAIN a :
       /\ a[id].classes \cap {"freeze-boundary-col", "freeze-boundary-row"}
            = b[id].classes \cap {"freeze-boundary-col", "freeze-boundary-row"}
       /\ a[id].left = b[id].left
       /\ a[id].top = b[id].top

\* C39: for the page's table, which has no spans, and every rowFreeze and
\* colFreeze >= 0, a recompute by the span-aware appliers and a recompute by
\* the modular appliers freeze the same cells by row and by column, mark the
\* same boundary cells and set the same left and top offsets.
C39_SpanAwareMatchesModularWithoutSpans ==
  \A t \in page : \A rowFreeze \in 0 .. NumRows(t) : \A colFreeze \in 0 .. matrixOf[t].maxCol :
    SameFreezeOutcome(freezeStylesWith(t, styles[t], rowFreeze, colFreeze),
                      modularStylesWith(t, styles[t], rowFreeze, colFreeze))

\* a full recompute runs: refresh() is called, or the frame of a layout-change
\* notification, of a window resize or of a mutation notification fires
FullRecomputeStep ==
  \/ refresh
  \/ \E f \in rafQueue : f.kind \in { "ro", "resize", "mutation" } /\ FireFrame(f)

\* C40: when a full recompute, whatever triggered it, has run while a table is
\* in the sticky zone and its container is inside the activation band, the top
\* offset of every row-frozen cell of the table is the scroll-relative one,
\* max(0, activationOffset - tableTopInViewport) plus the heights of the rows
\* above, not the static one.
C40_RecomputeInBandKeepsScrollRelativeTops ==
  [][ FullRecomputeStep
        => \A t \in tablesInStickyZone' \cap inDoc' :
             isInStickyZone(t, getStickyOffset(offsetSelector), scrollY')
               => \A id \in RowFrozenCells(styles'[t]) :
                    styles'[t][id].top
                      = StackedTop(t, getStickyOffset(offsetSelector), scrollY', id[1]) ]_vars

====
